---- MODULE Spec2Model ----
(***************************************************************************)
(* Memory-exercise sessions of theermite/brain-training: the session       *)
(* table, the scoring methods of MemoryExerciseSession and the handlers of *)
(* MemoryExerciseService as the routes of memory_exercises.py call them.   *)
(*                                                                         *)
(* Conventions of the model                                                *)
(*   - A Python Optional is a sequence: <<>> is None, <<v>> is the value v.*)
(*   - A Python float is an exact rational <<n, d>> in lowest terms with   *)
(*     d > 0; binary rounding of the floats is not modelled.               *)
(*   - A JSON dict is a function whose DOMAIN is the set of its keys, so   *)
(*     dict.get(key, default) tells an absent key from a key stored null.  *)
(*   - A row's id is its position in the table (autoincrement), which is   *)
(*     also the order of created_at.                                       *)
(*   - `calls` holds the requests that run step by step next to each       *)
(*     other; it is empty where each handler runs as one step.             *)
(***************************************************************************)
EXTENDS Integers, Sequences, FiniteSets, TLC

VARIABLES sessions, request, response, nreq, calls

vars == <<sessions, request, response, nreq, calls>>

\* ------------------------------------------------------------ bounds
\* Requests one behaviour handles.
MaxRequests == 3

\* ------------------------------------------------------- Optional values
None == <<>>

Some(v) == <<v>>

IsNone(x) == x = <<>>

Val(x) == x[1]

\* ------------------------------------------------------------- floats
RECURSIVE GCD(_, _)
GCD(a, b) == IF b = 0 THEN a ELSE GCD(b, a % b)

Abs(n) == IF n < 0 THEN -n ELSE n

Rat(n, d) ==
    LET g == GCD(Abs(n), Abs(d))
        s == IF d < 0 THEN -1 ELSE 1
    IN  <<(s * n) \div g, (s * d) \div g>>

F(i) == <<i, 1>>

RAdd(x, y) == Rat(x[1] * y[2] + y[1] * x[2], x[2] * y[2])

RSub(x, y) == Rat(x[1] * y[2] - y[1] * x[2], x[2] * y[2])

RMul(x, y) == Rat(x[1] * y[1], x[2] * y[2])

RDiv(x, y) == Rat(x[1] * y[2], x[2] * y[1])

RLe(x, y) == x[1] * y[2] <= y[1] * x[2]

RLt(x, y) == x[1] * y[2] < y[1] * x[2]

RMin(x, y) == IF RLe(x, y) THEN x ELSE y

\* ------------------------------------------------------------- dicts
\* dict.get(key, default)
DictGet(d, key, default) == IF key \in DOMAIN d THEN d[key] ELSE default

\* --------------------------------------------- models/memory_exercise.py
SEQUENCE_MEMORY == "sequence_memory"

MEMORY_CARDS == "memory_cards"

DefaultWeight == Rat(5, 10)

DefaultTimeLimit == Some(60000)

\* The table with the multiplier of hard given to medium.
difficulty_multipliers_shifted(difficulty) ==
    CASE difficulty = "easy"   -> Rat(10, 10)
      [] difficulty = "medium" -> Rat(15, 10)
      [] difficulty = "hard"   -> Rat(15, 10)
      [] difficulty = "expert" -> Rat(20, 10)
      [] OTHER                 -> Rat(10, 10)

\* The dict literal of calculate_score and generate_score_breakdown, read
\* with difficulty_multipliers.get(self.difficulty, 1.0).
difficulty_multipliers(difficulty) ==
    CASE difficulty = "easy"   -> Rat(10, 10)
      [] difficulty = "medium" -> Rat(12, 10)
      [] difficulty = "hard"   -> Rat(15, 10)
      [] difficulty = "expert" -> Rat(20, 10)
      [] OTHER                 -> Rat(10, 10)

\* A method's outcome: the value it returns, or the exception it raises.
Returns(v) == [raised |-> "", value |-> v]

Raises(e) == [raised |-> e, value |-> F(0)]

get_accuracy(s) ==
    IF s.total_moves = 0
    THEN F(0)
    ELSE RMul(Rat(s.correct_moves, s.total_moves), F(100))

\* Line 81: the sessions calculate_score gives 0.0 without looking further.
unscored_no_zero_check(s) == ~s.is_completed

unscored(s) == ~s.is_completed \/ s.total_moves = 0

\* The time score with a limit that is not positive replaced by the default.
time_score_default_limit(s) ==
    LET stored == DictGet(s.config, "time_limit_ms", DefaultTimeLimit)
        time_limit == IF ~IsNone(stored) /\ ~(Val(stored) > 0)
                      THEN DefaultTimeLimit ELSE stored
    IN  IF ~(s.time_elapsed_ms > 0) THEN Returns(F(0))
        ELSE IF IsNone(time_limit) THEN Raises("TypeError")
        ELSE LET time_ratio ==
                   RMin(F(1), Rat(s.time_elapsed_ms, Val(time_limit)))
             IN  Returns(RMul(RSub(F(1), time_ratio), F(100)))

\* Lines 91-98.  `self.time_elapsed_ms > 0 and time_limit > 0` stops at its
\* first operand when that is false; otherwise it compares time_limit with 0,
\* and None > 0 raises TypeError.
time_score(s) ==
    LET time_limit == DictGet(s.config, "time_limit_ms", DefaultTimeLimit)
    IN  IF ~(s.time_elapsed_ms > 0) THEN Returns(F(0))
        ELSE IF IsNone(time_limit) THEN Raises("TypeError")
        ELSE IF ~(Val(time_limit) > 0) THEN Returns(F(0))
        ELSE LET time_ratio ==
                   RMin(F(1), Rat(s.time_elapsed_ms, Val(time_limit)))
             IN  Returns(RMul(RSub(F(1), time_ratio), F(100)))

\* Lines 103-106: `and self.max_sequence_reached` is false for None and for 0.
sequence_bonus(s) ==
    IF s.exercise_type = SEQUENCE_MEMORY
       /\ ~IsNone(s.max_sequence_reached)
       /\ Val(s.max_sequence_reached) # 0
    THEN (IF 20 <= Val(s.max_sequence_reached) * 2
          THEN F(20) ELSE F(Val(s.max_sequence_reached) * 2))
    ELSE F(0)

calculate_score(s) ==
    IF unscored(s)
    THEN Returns(F(0))
    ELSE
      LET config == s.config
          time_weight == DictGet(config, "time_weight", DefaultWeight)
          accuracy_weight == DictGet(config, "accuracy_weight", DefaultWeight)
          accuracy_score == get_accuracy(s)
          timed == time_score(s)
      IN  IF timed.raised # "" THEN Raises(timed.raised)
          ELSE
            LET base_score == RAdd(RMul(accuracy_score, accuracy_weight),
                                   RMul(timed.value, time_weight))
                multiplier == difficulty_multipliers(s.difficulty)
                final == RMul(RAdd(base_score, sequence_bonus(s)), multiplier)
            IN  Returns(RMin(F(100), final))

generate_score_breakdown(s) ==
    LET accuracy == get_accuracy(s)
        time_limit == DictGet(s.config, "time_limit_ms", DefaultTimeLimit)
    IN  IF IsNone(time_limit) THEN Raises("TypeError")
        ELSE
          LET time_ratio ==
                IF Val(time_limit) > 0
                THEN RMin(F(1), Rat(s.time_elapsed_ms, Val(time_limit)))
                ELSE F(0)
              unweighted == RMul(RSub(F(1), time_ratio), F(100))
              multiplier == difficulty_multipliers(s.difficulty)
          IN  [raised |-> "",
               value |->
                 [accuracy |-> accuracy,
                  accuracy_score |->
                    RMul(accuracy,
                         DictGet(s.config, "accuracy_weight", DefaultWeight)),
                  time_score |->
                    RMul(unweighted,
                         DictGet(s.config, "time_weight", DefaultWeight)),
                  time_elapsed_ms |-> s.time_elapsed_ms,
                  total_moves |-> s.total_moves,
                  correct_moves |-> s.correct_moves,
                  incorrect_moves |-> s.incorrect_moves,
                  max_sequence |-> s.max_sequence_reached,
                  difficulty_multiplier |-> multiplier,
                  final_score |->
                    IF IsNone(s.final_score) THEN F(0) ELSE Val(s.final_score)]]

\* ------------------------------------------------- schemas/memory_exercise.py
\* MemoryExerciseConfig: the fields the scoring reads (the grid, sequence,
\* colour and image fields are stored and never read).
ConfigKeys ==
    {"exercise_type", "difficulty", "time_limit_ms", "time_weight",
     "accuracy_weight"}

\* config.model_dump(): every field of the object, the unset Optional ones
\* as None.
model_dump(config) == [k \in ConfigKeys |-> config[k]]

\* MemoryExerciseSessionUpdate with every field left at its default.
EmptyUpdate ==
    [completed_at |-> None, total_moves |-> None, correct_moves |-> None,
     incorrect_moves |-> None, time_elapsed_ms |-> None,
     max_sequence_reached |-> None, final_score |-> None,
     score_breakdown |-> None]

\* --------------------------------------- services/memory_exercise_service.py
\* The lookup without its owner filter.
find_session_any_owner(db, session_id, user_id) ==
    IF session_id \in 1..Len(db) THEN Some(db[session_id]) ELSE None

\* db.query(MemoryExerciseSession).filter(id == session_id,
\*                                        user_id == user_id).first()
find_session(db, session_id, user_id) ==
    IF session_id \in 1..Len(db) /\ db[session_id].user_id = user_id
    THEN Some(db[session_id])
    ELSE None

create_session(db, user_id, data) ==
    Append(db,
      [id |-> Len(db) + 1,
       user_id |-> user_id,
       exercise_id |-> data.exercise_id,
       exercise_type |-> data.config.exercise_type,
       difficulty |-> data.config.difficulty,
       config |-> model_dump(data.config),
       is_completed |-> FALSE,
       completed_at |-> None,
       total_moves |-> 0,
       correct_moves |-> 0,
       incorrect_moves |-> 0,
       time_elapsed_ms |-> 0,
       max_sequence_reached |-> None,
       final_score |-> None,
       score_breakdown |-> None])

\* The assignments with the `is not None` test of correct_moves lost: an
\* absent field is stored as the column default.
apply_fields_unguarded(s, data) ==
    [s EXCEPT
       !.total_moves =
          IF IsNone(data.total_moves) THEN @ ELSE Val(data.total_moves),
       !.correct_moves =
          IF IsNone(data.correct_moves) THEN 0 ELSE Val(data.correct_moves),
       !.incorrect_moves =
          IF IsNone(data.incorrect_moves) THEN @ ELSE Val(data.incorrect_moves),
       !.time_elapsed_ms =
          IF IsNone(data.time_elapsed_ms) THEN @ ELSE Val(data.time_elapsed_ms),
       !.max_sequence_reached =
          IF IsNone(data.max_sequence_reached) THEN @
          ELSE data.max_sequence_reached]

\* Lines 60-69: each telemetry field that is not None is assigned.
apply_fields(s, data) ==
    [s EXCEPT
       !.total_moves =
          IF IsNone(data.total_moves) THEN @ ELSE Val(data.total_moves),
       !.correct_moves =
          IF IsNone(data.correct_moves) THEN @ ELSE Val(data.correct_moves),
       !.incorrect_moves =
          IF IsNone(data.incorrect_moves) THEN @ ELSE Val(data.incorrect_moves),
       !.time_elapsed_ms =
          IF IsNone(data.time_elapsed_ms) THEN @ ELSE Val(data.time_elapsed_ms),
       !.max_sequence_reached =
          IF IsNone(data.max_sequence_reached) THEN @
          ELSE data.max_sequence_reached]

\* The completion that marks the session and stores no score.
complete_session_unscored(s, data) ==
    IF IsNone(data.completed_at) THEN Returns(s)
    ELSE Returns([s EXCEPT !.is_completed = TRUE,
                           !.completed_at = data.completed_at])

\* Lines 72-78: `if data.completed_at:` and the scoring it triggers.
complete_session(s, data) ==
    IF IsNone(data.completed_at) THEN Returns(s)
    ELSE
      LET s1 == [s EXCEPT !.is_completed = TRUE,
                          !.completed_at = data.completed_at]
          score == calculate_score(s1)
      IN  IF score.raised # "" THEN [raised |-> score.raised, value |-> s]
          ELSE
            LET s2 == [s1 EXCEPT !.final_score = Some(score.value)]
                breakdown == generate_score_breakdown(s2)
            IN  IF breakdown.raised # ""
                THEN [raised |-> breakdown.raised, value |-> s]
                ELSE Returns([s2 EXCEPT
                                !.score_breakdown = Some(breakdown.value)])

\* update_session scoring the row as it was read, before the payload's
\* telemetry is assigned.
update_session_stale(db, session_id, user_id, data) ==
    LET found == find_session(db, session_id, user_id)
    IN  IF IsNone(found) THEN [raised |-> "ValueError", db |-> db]
        ELSE
          LET done == complete_session(Val(found), data)
          IN  IF done.raised # "" THEN [raised |-> done.raised, db |-> db]
              ELSE [raised |-> "",
                    db |-> [db EXCEPT
                              ![session_id] = apply_fields(done.value, data)]]

\* update_session: the table after the call and the exception it raised.
\* An exception leaves before db.commit(), so nothing of the call is stored.
update_session(db, session_id, user_id, data) ==
    LET found == find_session(db, session_id, user_id)
    IN  IF IsNone(found) THEN [raised |-> "ValueError", db |-> db]
        ELSE
          LET done == complete_session(apply_fields(Val(found), data), data)
          IN  IF done.raised # "" THEN [raised |-> done.raised, db |-> db]
              ELSE [raised |-> "",
                    db |-> [db EXCEPT ![session_id] = done.value]]

get_session(db, session_id, user_id) == find_session(db, session_id, user_id)

\* Lines 124-127: is_completed == True and final_score IS NOT NULL.
ranked(s) == s.is_completed /\ ~IsNone(s.final_score)

\* Lines 129-134: `if exercise_id:`, `if exercise_type:`, `if difficulty:`
\* add a filter when the argument is truthy, so None, 0 and "" add none.
passes_filters(s, exercise_id, exercise_type, difficulty) ==
    /\ (~IsNone(exercise_id) /\ Val(exercise_id) # 0) =>
          s.exercise_id = exercise_id
    /\ (~IsNone(exercise_type) /\ Val(exercise_type) # "") =>
          s.exercise_type = Val(exercise_type)
    /\ (~IsNone(difficulty) /\ Val(difficulty) # "") =>
          s.difficulty = Val(difficulty)

\* ORDER BY final_score with the lowest score first.
RECURSIVE order_by_asc(_, _)
order_by_asc(db, ids) ==
    IF ids = {} THEN {<<>>}
    ELSE UNION {{<<x>> \o rest : rest \in order_by_asc(db, ids \ {x})} :
                  x \in {y \in ids :
                           \A z \in ids : RLe(Val(db[y].final_score),
                                              Val(db[z].final_score))}}

\* ORDER BY final_score DESC: every order of the rows `ids` by non-increasing
\* score.  The query names no second key, so rows of equal score come in any
\* order.
RECURSIVE order_by_desc(_, _)
order_by_desc(db, ids) ==
    IF ids = {} THEN {<<>>}
    ELSE UNION {{<<x>> \o rest : rest \in order_by_desc(db, ids \ {x})} :
                  x \in {y \in ids :
                           \A z \in ids : RLe(Val(db[z].final_score),
                                              Val(db[y].final_score))}}

\* .limit(limit)
limit_rows(rows, limit) ==
    SubSeq(rows, 1, IF Len(rows) < limit THEN Len(rows) ELSE limit)

\* Lines 138-150: one MemoryExerciseLeaderboard per row.
leaderboard_entries(db, rows) ==
    [idx \in 1..Len(rows) |->
        [rank |-> idx,
         user_id |-> db[rows[idx]].user_id,
         final_score |-> Val(db[rows[idx]].final_score),
         accuracy |-> get_accuracy(db[rows[idx]]),
         time_elapsed_ms |-> db[rows[idx]].time_elapsed_ms,
         difficulty |-> db[rows[idx]].difficulty,
         completed_at |-> db[rows[idx]].completed_at,
         is_current_user |-> FALSE]]

\* get_leaderboard: the lists the call can return.
get_leaderboard(db, exercise_id, exercise_type, difficulty, limit) ==
    LET ids == {i \in 1..Len(db) :
                  /\ ranked(db[i])
                  /\ passes_filters(db[i], exercise_id, exercise_type,
                                    difficulty)}
    IN  {leaderboard_entries(db, limit_rows(rows, limit)) :
           rows \in order_by_desc(db, ids)}

\* ------------------------------------------------ routes/memory_exercises.py
Users == {1, 2}

Request(op, session_id, user_id, data) ==
    [op |-> op, session_id |-> session_id, user_id |-> user_id, data |-> data]

\* The HTTP answer: 201/200 with the rows it reports, 404, or 500 for an
\* exception no handler catches.
Response(status, body) == [status |-> status, body |-> body]

CreateSession(user_id, data) ==
    /\ nreq < MaxRequests
    /\ sessions' = create_session(sessions, user_id, data)
    /\ request' = Request("create", Len(sessions) + 1, user_id, data)
    /\ response' = Response(201, <<sessions'[Len(sessions')]>>)
    /\ nreq' = nreq + 1
    /\ UNCHANGED calls

UpdateSession(session_id, user_id, data) ==
    /\ nreq < MaxRequests
    /\ LET r == update_session(sessions, session_id, user_id, data)
       IN  /\ sessions' = r.db
           /\ response' =
                CASE r.raised = ""           -> Response(200, <<r.db[session_id]>>)
                  [] r.raised = "ValueError" -> Response(404, <<>>)
                  [] OTHER                   -> Response(500, <<>>)
    /\ request' = Request("update", session_id, user_id, data)
    /\ nreq' = nreq + 1
    /\ UNCHANGED calls

GetSession(session_id, user_id) ==
    /\ nreq < MaxRequests
    /\ LET s == get_session(sessions, session_id, user_id)
       IN  response' = IF IsNone(s) THEN Response(404, <<>>)
                       ELSE Response(200, <<Val(s)>>)
    /\ request' = Request("get", session_id, user_id, EmptyUpdate)
    /\ nreq' = nreq + 1
    /\ UNCHANGED <<sessions, calls>>

GetLeaderboard(exercise_id, exercise_type, difficulty, limit) ==
    /\ nreq < MaxRequests
    /\ \E body \in get_leaderboard(sessions, exercise_id, exercise_type,
                                   difficulty, limit) :
          response' = Response(200, body)
    /\ request' = Request("leaderboard", 0, 0,
                          [exercise_id |-> exercise_id,
                           exercise_type |-> exercise_type,
                           difficulty |-> difficulty, limit |-> limit])
    /\ nreq' = nreq + 1
    /\ UNCHANGED <<sessions, calls>>

\* ------------------------------------------------------------ inputs
ConfigMedium ==
    [exercise_type |-> MEMORY_CARDS, difficulty |-> "medium",
     time_limit_ms |-> Some(60000), time_weight |-> Rat(4, 10),
     accuracy_weight |-> Rat(6, 10)]

\* The caller leaves time_limit_ms unset, as the sequence_memory preset does.
ConfigNoLimit ==
    [exercise_type |-> SEQUENCE_MEMORY, difficulty |-> "easy",
     time_limit_ms |-> None, time_weight |-> Rat(2, 10),
     accuracy_weight |-> Rat(8, 10)]

ConfigZeroLimit ==
    [exercise_type |-> MEMORY_CARDS, difficulty |-> "hard",
     time_limit_ms |-> Some(0), time_weight |-> Rat(5, 10),
     accuracy_weight |-> Rat(5, 10)]

\* The schema takes any float as a weight.
ConfigNegative ==
    [exercise_type |-> MEMORY_CARDS, difficulty |-> "easy",
     time_limit_ms |-> Some(60000), time_weight |-> Rat(5, 10),
     accuracy_weight |-> Rat(-5, 10)]

Configs == {ConfigMedium, ConfigNoLimit, ConfigZeroLimit, ConfigNegative}

CreateRequests ==
    {[exercise_id |-> e, config |-> c] : e \in {None, Some(7)}, c \in Configs}

\* Telemetry alone.
UpdateTelemetry ==
    [EmptyUpdate EXCEPT !.total_moves = Some(10), !.correct_moves = Some(8),
                        !.incorrect_moves = Some(2),
                        !.time_elapsed_ms = Some(30000)]

\* Completion alone.
UpdateComplete == [EmptyUpdate EXCEPT !.completed_at = Some(1)]

\* Completion with telemetry and with the two score fields the schema lets
\* the caller send.
UpdateCompleteAll ==
    [completed_at |-> Some(2), total_moves |-> Some(4),
     correct_moves |-> Some(1), incorrect_moves |-> Some(3),
     time_elapsed_ms |-> Some(90000), max_sequence_reached |-> Some(15),
     final_score |-> Some(F(99)),
     score_breakdown |-> Some([final_score |-> F(99)])]

\* One field alone.
UpdateMoves == [EmptyUpdate EXCEPT !.total_moves = Some(0)]

UpdatePayloads ==
    {UpdateTelemetry, UpdateComplete, UpdateCompleteAll, UpdateMoves}

\* ------------------------------------------------------------ lifecycle
Init ==
    /\ sessions = <<>>
    /\ request = Request("none", 0, 0, EmptyUpdate)
    /\ response = Response(0, <<>>)
    /\ nreq = 0
    /\ calls = <<>>

Create == \E u \in Users, d \in CreateRequests : CreateSession(u, d)

Update ==
    \E id \in 1..(Len(sessions) + 1), u \in Users, d \in UpdatePayloads :
        UpdateSession(id, u, d)

Get == \E id \in 1..(Len(sessions) + 1), u \in Users : GetSession(id, u)

Next == Create \/ Update \/ Get

Spec == Init /\ [][Next]_vars

\* ------------------------------------------------- scoring, input by input
\* One stored row, not yet completed, and one Update that completes it.  The
\* row is any row the table can hold: config is a JSON column (a key may be
\* absent, time_limit_ms may be null) and difficulty a String(20) column.
\* A key's entry is <<>> when the key is absent and <<v>> when it holds v.
ScoreTypes == {MEMORY_CARDS, SEQUENCE_MEMORY}

ScoreDifficulties == {"easy", "medium", "hard", "expert", "legendary"}

ScoreTimeLimits == {<<>>, <<None>>, <<Some(0)>>, <<Some(60000)>>, <<Some(-1000)>>}

ScoreTimeWeights == {<<>>, <<Rat(4, 10)>>, <<Rat(1, 1)>>, <<Rat(-5, 10)>>}

ScoreAccuracyWeights == {<<>>, <<Rat(6, 10)>>, <<Rat(1, 1)>>, <<Rat(-5, 10)>>}

ScoreConfig(type, difficulty, limit, tw, aw) ==
    [k \in {"exercise_type", "difficulty"}
           \cup (IF limit = <<>> THEN {} ELSE {"time_limit_ms"})
           \cup (IF tw = <<>> THEN {} ELSE {"time_weight"})
           \cup (IF aw = <<>> THEN {} ELSE {"accuracy_weight"}) |->
        CASE k = "exercise_type" -> type
          [] k = "difficulty"    -> difficulty
          [] k = "time_limit_ms" -> limit[1]
          [] k = "time_weight"   -> tw[1]
          [] OTHER               -> aw[1]]

ScoreRow(type, difficulty, limit, tw, aw) ==
    [id |-> 1, user_id |-> 1, exercise_id |-> None,
     exercise_type |-> type, difficulty |-> difficulty,
     config |-> ScoreConfig(type, difficulty, limit, tw, aw),
     is_completed |-> FALSE, completed_at |-> None,
     total_moves |-> 0, correct_moves |-> 0, incorrect_moves |-> 0,
     time_elapsed_ms |-> 0, max_sequence_reached |-> None,
     final_score |-> None, score_breakdown |-> None]

ScorePayloads ==
    {[completed_at |-> Some(1), total_moves |-> Some(t),
      correct_moves |-> Some(c), incorrect_moves |-> Some(2),
      time_elapsed_ms |-> Some(e), max_sequence_reached |-> m,
      final_score |-> None, score_breakdown |-> None] :
        t \in {0, 4, 10}, c \in {0, 8, 10}, e \in {0, 30000, 60000, 90000},
        m \in {None, Some(0), Some(3), Some(15)}}

ScoreInit ==
    /\ \E type \in ScoreTypes, difficulty \in ScoreDifficulties,
          limit \in ScoreTimeLimits, tw \in ScoreTimeWeights,
          aw \in ScoreAccuracyWeights :
            sessions = <<ScoreRow(type, difficulty, limit, tw, aw)>>
    /\ request = Request("none", 0, 0, EmptyUpdate)
    /\ response = Response(0, <<>>)
    /\ nreq = MaxRequests - 1
    /\ calls = <<>>

ScoreUpdate == \E d \in ScorePayloads : UpdateSession(1, 1, d)

ScoreNext == ScoreUpdate

ScoreSpec == ScoreInit /\ [][ScoreNext]_vars

\* ------------------------------------------------- queries, table by table
\* The table is any table of at most MaxRows rows that Create and Update
\* build: each row is created by create_session and then receives at most one
\* update_session.  One query is then answered.
MaxRows == 3

\* The score is the accuracy.
ConfigAccuracy ==
    [exercise_type |-> MEMORY_CARDS, difficulty |-> "easy",
     time_limit_ms |-> Some(60000), time_weight |-> F(0),
     accuracy_weight |-> F(1)]

Completes(total, correct) ==
    [EmptyUpdate EXCEPT !.completed_at = Some(1), !.total_moves = Some(total),
                        !.correct_moves = Some(correct),
                        !.time_elapsed_ms = Some(30000)]

\* A row's history: who creates it, with what, and the updates it receives.
RowPlan(user_id, exercise_id, config, updates) ==
    [user_id |-> user_id,
     data |-> [exercise_id |-> exercise_id, config |-> config],
     updates |-> updates]

RowPlans ==
    {RowPlan(1, None, ConfigAccuracy, <<>>),
     RowPlan(1, None, ConfigAccuracy, <<Completes(10, 9)>>),
     RowPlan(2, None, ConfigAccuracy, <<Completes(20, 19)>>),
     RowPlan(1, None, ConfigAccuracy, <<Completes(10, 8)>>),
     RowPlan(2, None, ConfigAccuracy, <<Completes(10, 9)>>),
     RowPlan(1, Some(7), ConfigMedium, <<UpdateCompleteAll>>),
     RowPlan(2, Some(0), ConfigZeroLimit, <<Completes(10, 9)>>),
     RowPlan(2, Some(7), ConfigNoLimit, <<Completes(10, 9)>>)}

RECURSIVE apply_updates(_, _, _, _)
apply_updates(db, session_id, user_id, updates) ==
    IF updates = <<>> THEN db
    ELSE apply_updates(
           update_session(db, session_id, user_id, Head(updates)).db,
           session_id, user_id, Tail(updates))

RECURSIVE build_table(_, _)
build_table(db, plans) ==
    IF plans = <<>> THEN db
    ELSE LET plan == Head(plans)
             created == create_session(db, plan.user_id, plan.data)
         IN  build_table(
               apply_updates(created, Len(created), plan.user_id, plan.updates),
               Tail(plans))

Limits == {1, 2, 100}

QueryInit ==
    /\ \E n \in 0..MaxRows : \E plans \in [1..n -> RowPlans] :
          sessions = build_table(<<>>, plans)
    /\ request = Request("none", 0, 0, EmptyUpdate)
    /\ response = Response(0, <<>>)
    /\ nreq = MaxRequests - 1
    /\ calls = <<>>

Leaderboard ==
    \E e \in {None, Some(0), Some(7)}, t \in {None, Some(MEMORY_CARDS)},
       d \in {None, Some("easy")}, limit \in Limits :
        GetLeaderboard(e, t, d, limit)

QueryNext == Leaderboard

QuerySpec == QueryInit /\ [][QueryNext]_vars

\* ------------------------------------------------------------ properties
Rows == 1..Len(sessions)

\* The request just handled is an Update that found its row.
UpdateApplied ==
    /\ request.op = "update"
    /\ response.status = 200

\* The request just handled is an Update by the owner of an existing row.
UpdateByOwner ==
    /\ request.op = "update"
    /\ request.session_id \in Rows
    /\ sessions[request.session_id].user_id = request.user_id

\* C1: every completed session's stored final_score lies in [0, 100].
C1_ScoreInRange ==
    \A i \in Rows :
        sessions[i].is_completed =>
            /\ ~IsNone(sessions[i].final_score)
            /\ RLe(F(0), Val(sessions[i].final_score))
            /\ RLe(Val(sessions[i].final_score), F(100))

\* C2: a session that is not completed has neither final_score nor
\* score_breakdown, and a completed session has both.
C2_ScoredIffCompleted ==
    \A i \in Rows :
        IF sessions[i].is_completed
        THEN ~IsNone(sessions[i].final_score)
             /\ ~IsNone(sessions[i].score_breakdown)
        ELSE IsNone(sessions[i].final_score)
             /\ IsNone(sessions[i].score_breakdown)

C2_Witness ==
    \E i, j \in Rows :
        /\ sessions[i].is_completed
        /\ ~IsNone(sessions[i].final_score)
        /\ ~sessions[j].is_completed
        /\ IsNone(sessions[j].final_score)

\* C3: once a session is completed, no step changes its completed_at,
\* final_score or score_breakdown.
C3_FinalizedOnce ==
    [][\A i \in Rows :
         sessions[i].is_completed =>
            /\ sessions'[i].completed_at = sessions[i].completed_at
            /\ sessions'[i].final_score = sessions[i].final_score
            /\ sessions'[i].score_breakdown = sessions[i].score_breakdown]_vars

\* C4: a Get or an Update naming a session of another user is answered as one
\* naming no session, with 404, and the Update leaves the table as it was.
C4_OwnerScoped ==
    [][(/\ request'.op \in {"get", "update"}
        /\ \/ request'.session_id \notin Rows
           \/ sessions[request'.session_id].user_id # request'.user_id)
       => /\ response' = Response(404, <<>>)
          /\ sessions' = sessions]_vars

C4_Witness ==
    /\ request.op = "update"
    /\ request.session_id \in Rows
    /\ sessions[request.session_id].user_id # request.user_id
    /\ ~IsNone(request.data.completed_at)
    /\ response.status = 404

\* C5: an Update assigns the telemetry fields its payload carries and keeps
\* the others; without completed_at it keeps the completion fields; it never
\* changes user_id, exercise_type, difficulty or config, nor another row.
C5_UpdateFrame ==
    [][(request'.op = "update" /\ request'.session_id \in Rows) =>
         LET old == sessions[request'.session_id]
             new == sessions'[request'.session_id]
             data == request'.data
             ok == response'.status = 200
         IN  /\ new.total_moves =
                  IF ok /\ ~IsNone(data.total_moves)
                  THEN Val(data.total_moves) ELSE old.total_moves
             /\ new.correct_moves =
                  IF ok /\ ~IsNone(data.correct_moves)
                  THEN Val(data.correct_moves) ELSE old.correct_moves
             /\ new.incorrect_moves =
                  IF ok /\ ~IsNone(data.incorrect_moves)
                  THEN Val(data.incorrect_moves) ELSE old.incorrect_moves
             /\ new.time_elapsed_ms =
                  IF ok /\ ~IsNone(data.time_elapsed_ms)
                  THEN Val(data.time_elapsed_ms) ELSE old.time_elapsed_ms
             /\ new.max_sequence_reached =
                  IF ok /\ ~IsNone(data.max_sequence_reached)
                  THEN data.max_sequence_reached ELSE old.max_sequence_reached
             /\ IsNone(data.completed_at) =>
                  /\ new.is_completed = old.is_completed
                  /\ new.completed_at = old.completed_at
                  /\ new.final_score = old.final_score
                  /\ new.score_breakdown = old.score_breakdown
             /\ new.user_id = old.user_id
             /\ new.exercise_id = old.exercise_id
             /\ new.exercise_type = old.exercise_type
             /\ new.difficulty = old.difficulty
             /\ new.config = old.config
             /\ \A i \in Rows : i # request'.session_id =>
                  sessions'[i] = sessions[i]]_vars

C5_Witness ==
    /\ UpdateApplied
    /\ request.data = UpdateMoves
    /\ LET s == sessions[request.session_id]
       IN  /\ s.total_moves = 0
           /\ s.correct_moves = 8
           /\ s.time_elapsed_ms = 30000

\* C6: the final_score an Update with completed_at stores is calculate_score
\* of the row with the payload's telemetry in it, whatever final_score the
\* payload carries.
C6_ScoreOfAppliedTelemetry ==
    (UpdateApplied /\ ~IsNone(request.data.completed_at)) =>
        LET s == sessions[request.session_id]
            data == request.data
        IN  /\ s.is_completed
            /\ IsNone(data.total_moves) \/ s.total_moves = Val(data.total_moves)
            /\ IsNone(data.correct_moves)
                 \/ s.correct_moves = Val(data.correct_moves)
            /\ IsNone(data.time_elapsed_ms)
                 \/ s.time_elapsed_ms = Val(data.time_elapsed_ms)
            /\ IsNone(data.max_sequence_reached)
                 \/ s.max_sequence_reached = data.max_sequence_reached
            /\ s.final_score = Some(calculate_score(s).value)
            /\ Val(s.score_breakdown).final_score = Val(s.final_score)

\* An update sends telemetry and a score of its own to a row that held other
\* telemetry; the stored score is neither the sent one nor 0.
C6_Witness ==
    /\ UpdateApplied
    /\ request.data = UpdateCompleteAll
    /\ sessions[request.session_id].config = model_dump(ConfigMedium)
    /\ sessions[request.session_id].final_score = Some(F(18))

\* C7: an Update with completed_at by the owner of a session is never
\* answered with an error, and completes the session.
C7_CompletionNeverFails ==
    (UpdateByOwner /\ ~IsNone(request.data.completed_at)) =>
        /\ response.status = 200
        /\ sessions[request.session_id].is_completed

\* The request just handled is an Update that completed its row.
CompletedNow == UpdateApplied /\ ~IsNone(request.data.completed_at)

\* C8: a session completed with total_moves = 0 gets final_score 0.0 and
\* accuracy 0.0 in its breakdown.
C8_ZeroMovesScoreZero ==
    (CompletedNow /\ sessions[request.session_id].total_moves = 0) =>
        LET s == sessions[request.session_id]
        IN  /\ s.final_score = Some(F(0))
            /\ Val(s.score_breakdown).accuracy = F(0)

\* Zero moves with everything else that could earn points: time left on the
\* clock, a sequence bonus, the expert multiplier.
C8_Witness ==
    /\ CompletedNow
    /\ LET s == sessions[request.session_id]
       IN  /\ s.total_moves = 0
           /\ s.correct_moves = 8
           /\ s.time_elapsed_ms = 30000
           /\ s.exercise_type = SEQUENCE_MEMORY
           /\ s.max_sequence_reached = Some(15)
           /\ s.difficulty = "expert"
           /\ DictGet(s.config, "time_limit_ms", None) = Some(60000)
           /\ s.final_score = Some(F(0))

\* The formula of C9, written from its terms.
C9_Multiplier(difficulty) ==
    IF difficulty = "medium" THEN Rat(12, 10)
    ELSE IF difficulty = "hard" THEN Rat(15, 10)
    ELSE IF difficulty = "expert" THEN F(2)
    ELSE F(1)

C9_Bonus(s) ==
    IF s.exercise_type = "sequence_memory"
       /\ s.max_sequence_reached # None
       /\ Val(s.max_sequence_reached) > 0
    THEN RMin(F(20), F(2 * Val(s.max_sequence_reached)))
    ELSE F(0)

C9_Formula(s) ==
    LET accuracy == Rat(100 * s.correct_moves, s.total_moves)
        base_score ==
            RAdd(RMul(accuracy, DictGet(s.config, "accuracy_weight", Rat(1, 2))),
                 RMul(time_score(s).value,
                      DictGet(s.config, "time_weight", Rat(1, 2))))
    IN  RMin(F(100),
             RMul(RAdd(base_score, C9_Bonus(s)), C9_Multiplier(s.difficulty)))

C9_Example(s) ==
    /\ s.difficulty = "medium"
    /\ s.exercise_type = MEMORY_CARDS
    /\ DictGet(s.config, "accuracy_weight", None) = Rat(6, 10)
    /\ DictGet(s.config, "time_weight", None) = Rat(4, 10)
    /\ DictGet(s.config, "time_limit_ms", None) = Some(60000)
    /\ s.total_moves = 10
    /\ s.correct_moves = 8
    /\ s.time_elapsed_ms = 30000

\* C9: a session completed with total_moves > 0 gets
\* min(100, (accuracy*accuracy_weight + time_score*time_weight + bonus)
\*          * multiplier), which is 81.6 in the example of the claim.
C9_ScoreFormula ==
    (CompletedNow /\ sessions[request.session_id].total_moves > 0) =>
        LET s == sessions[request.session_id]
        IN  /\ s.final_score = Some(C9_Formula(s))
            /\ C9_Example(s) => s.final_score = Some(Rat(816, 10))

\* The example of the claim: 81.6 = 408/5.
C9_Witness ==
    /\ CompletedNow
    /\ C9_Example(sessions[request.session_id])
    /\ sessions[request.session_id].final_score = Some(Rat(408, 5))

\* The rows a leaderboard may rank.
Eligible ==
    {i \in Rows : sessions[i].is_completed /\ sessions[i].final_score # None}

Unfiltered ==
    /\ request.data.exercise_id = None
    /\ request.data.exercise_type = None
    /\ request.data.difficulty = None

Smaller(a, b) == IF a < b THEN a ELSE b

\* C10: a leaderboard lists only completed sessions that have a score, by
\* non-increasing score, ranked 1..N by position; without filters it lists
\* min(limit, number of eligible sessions) of them and leaves out no session
\* that scored more than a listed one (90, 95, 80 with limit 2 give 95, 90).
C10_LeaderboardRanksTopScores ==
    request.op = "leaderboard" =>
        LET body == response.body
            n == Len(body)
            limit == request.data.limit
        IN  /\ response.status = 200
            /\ \A k \in 1..n :
                 /\ body[k].rank = k
                 /\ \E i \in Eligible :
                      /\ body[k].user_id = sessions[i].user_id
                      /\ body[k].final_score = Val(sessions[i].final_score)
                      /\ body[k].time_elapsed_ms = sessions[i].time_elapsed_ms
                      /\ body[k].difficulty = sessions[i].difficulty
                      /\ body[k].completed_at = sessions[i].completed_at
            /\ \A k \in 1..(n - 1) :
                 RLe(body[k + 1].final_score, body[k].final_score)
            /\ n <= Smaller(limit, Cardinality(Eligible))
            /\ Unfiltered =>
                 /\ n = Smaller(limit, Cardinality(Eligible))
                 /\ \A i \in Eligible, k \in 1..n :
                      RLt(body[k].final_score, Val(sessions[i].final_score)) =>
                        Cardinality({j \in 1..n :
                           body[j].final_score = Val(sessions[i].final_score)})
                        = Cardinality({j \in Eligible :
                           sessions[j].final_score = sessions[i].final_score})
                 /\ (/\ Len(sessions) = 3
                     /\ sessions[1].final_score = Some(F(90))
                     /\ sessions[2].final_score = Some(F(95))
                     /\ sessions[3].final_score = Some(F(80))
                     /\ limit = 2) =>
                        /\ n = 2
                        /\ body[1].final_score = F(95)
                        /\ body[2].final_score = F(90)

\* The example of the claim.
C10_Witness ==
    /\ request.op = "leaderboard"
    /\ Unfiltered
    /\ request.data.limit = 2
    /\ Len(sessions) = 3
    /\ sessions[1].final_score = Some(F(90))
    /\ sessions[2].final_score = Some(F(95))
    /\ sessions[3].final_score = Some(F(80))
    /\ Len(response.body) = 2
    /\ response.body[1].rank = 1
    /\ response.body[1].final_score = F(95)
    /\ response.body[2].final_score = F(90)

\* A row matches every filter the caller provided (None = not provided).
MatchesProvided(s, data) ==
    /\ data.exercise_id # None => s.exercise_id = data.exercise_id
    /\ data.exercise_type # None => s.exercise_type = Val(data.exercise_type)
    /\ data.difficulty # None => s.difficulty = Val(data.difficulty)

\* C11: every entry of a leaderboard reports a ranked session that matches
\* every filter the caller provided, exercise_id = 0 included; a filter is
\* skipped only when it was not provided.
C11_EntriesMatchFilters ==
    request.op = "leaderboard" =>
        \A k \in 1..Len(response.body) :
            \E i \in Eligible :
                /\ MatchesProvided(sessions[i], request.data)
                /\ response.body[k].user_id = sessions[i].user_id
                /\ response.body[k].final_score = Val(sessions[i].final_score)
                /\ response.body[k].time_elapsed_ms = sessions[i].time_elapsed_ms
                /\ response.body[k].difficulty = sessions[i].difficulty
                /\ response.body[k].completed_at = sessions[i].completed_at

\* ----------------------------------------------------- user statistics
\* The other two members of MemoryExerciseType, and the enum in the order
\* `for exercise_type in MemoryExerciseType` visits it.
PATTERN_RECALL == "pattern_recall"

IMAGE_PAIRS == "image_pairs"

ExerciseTypes == <<MEMORY_CARDS, PATTERN_RECALL, SEQUENCE_MEMORY, IMAGE_PAIRS>>

\* [:10] of recent_sessions.
RecentCount == 10

\* `if s.final_score`: None and 0.0 are both false.
truthy_score(s) == ~IsNone(s.final_score) /\ Val(s.final_score) # F(0)

\* `if s.max_sequence_reached`: None and 0 are both false.
truthy_sequence(s) ==
    ~IsNone(s.max_sequence_reached) /\ Val(s.max_sequence_reached) # 0

\* [f(s) for s in rows]
final_scores(rows) == [i \in 1..Len(rows) |-> Val(rows[i].final_score)]

accuracies(rows) == [i \in 1..Len(rows) |-> get_accuracy(rows[i])]

elapsed_times(rows) == [i \in 1..Len(rows) |-> F(rows[i].time_elapsed_ms)]

Range(xs) == {xs[i] : i \in 1..Len(xs)}

\* max(list, default=None) and min(list, default=None)
max_default(xs) ==
    IF xs = <<>> THEN None
    ELSE Some(CHOOSE x \in Range(xs) : \A y \in Range(xs) : RLe(y, x))

min_default(xs) ==
    IF xs = <<>> THEN None
    ELSE Some(CHOOSE x \in Range(xs) : \A y \in Range(xs) : RLe(x, y))

\* sum(list)
RECURSIVE sum_of(_)
sum_of(xs) == IF xs = <<>> THEN F(0) ELSE RAdd(Head(xs), sum_of(Tail(xs)))

\* sum(list) / len(completed_sessions) if completed_sessions else None
average(xs, completed_sessions) ==
    IF completed_sessions = <<>> THEN None
    ELSE Some(RDiv(sum_of(xs), F(Len(completed_sessions))))

\* sorted(..., key=created_at, reverse=True): the newest row first.
newest_first(rows) == [i \in 1..Len(rows) |-> rows[Len(rows) + 1 - i]]

\* A field declared Optional[int] takes None, and a float only when it has
\* no fractional part; any other float fails the validation of the model.
validate_optional_int(x) ==
    IF IsNone(x) THEN Returns(None)
    ELSE IF Val(x)[2] = 1 THEN Returns(Some(Val(x)[1]))
    ELSE Raises("ValidationError")

\* Lines 175-189: the MemoryExerciseStats of one exercise type.
exercise_stats(exercise_type, rows) ==
    LET completed_sessions == SelectSeq(rows, LAMBDA s : s.is_completed)
        recent_sessions ==
            limit_rows(newest_first(completed_sessions), RecentCount)
        scored == SelectSeq(completed_sessions, truthy_score)
        timed == SelectSeq(completed_sessions,
                           LAMBDA s : s.time_elapsed_ms > 0)
        sequenced == SelectSeq(completed_sessions, truthy_sequence)
        fastest == min_default(elapsed_times(timed))
        longest == max_default([i \in 1..Len(sequenced) |->
                                  F(Val(sequenced[i].max_sequence_reached))])
        avg_time_ms == validate_optional_int(
                           average(elapsed_times(completed_sessions),
                                   completed_sessions))
    IN  IF avg_time_ms.raised # "" THEN Raises(avg_time_ms.raised)
        ELSE Returns(
          [exercise_type |-> exercise_type,
           total_attempts |-> Len(rows),
           completed_attempts |-> Len(completed_sessions),
           best_score |-> max_default(final_scores(scored)),
           best_accuracy |-> max_default(accuracies(completed_sessions)),
           fastest_time_ms |->
               IF IsNone(fastest) THEN None ELSE Some(Val(fastest)[1]),
           longest_sequence |->
               IF IsNone(longest) THEN None ELSE Some(Val(longest)[1]),
           avg_score |-> average(final_scores(scored), completed_sessions),
           avg_accuracy |-> average(accuracies(completed_sessions),
                                    completed_sessions),
           avg_time_ms |-> avg_time_ms.value,
           improvement_rate |-> None,
           recent_scores |->
               final_scores(SelectSeq(recent_sessions, truthy_score)),
           recent_accuracies |-> accuracies(recent_sessions)])

\* Lines 162-193: the loop over the exercise types; a type without a session
\* of the user is skipped, and an exception ends the call.
RECURSIVE stats_loop(_, _, _, _)
stats_loop(db, user_id, types, stats_list) ==
    IF types = <<>> THEN [raised |-> "", value |-> stats_list]
    ELSE LET rows == SelectSeq(db, LAMBDA s :
                        s.user_id = user_id /\ s.exercise_type = Head(types))
             stats == exercise_stats(Head(types), rows)
         IN  IF rows = <<>>
             THEN stats_loop(db, user_id, Tail(types), stats_list)
             ELSE IF stats.raised # ""
             THEN [raised |-> stats.raised, value |-> <<>>]
             ELSE stats_loop(db, user_id, Tail(types),
                             Append(stats_list, stats.value))

get_user_stats(db, user_id) == stats_loop(db, user_id, ExerciseTypes, <<>>)

\* GET /stats: the handler catches nothing, so an exception is a 500.
GetUserStats(user_id) ==
    /\ nreq < MaxRequests
    /\ response' = LET stats == get_user_stats(sessions, user_id)
                   IN  IF stats.raised # "" THEN Response(500, <<>>)
                       ELSE Response(200, stats.value)
    /\ request' = Request("stats", 0, user_id, EmptyUpdate)
    /\ nreq' = nreq + 1
    /\ UNCHANGED <<sessions, calls>>

\* ------------------------------------------------ statistics of a table
Finishes(total, correct, elapsed) ==
    [Completes(total, correct) EXCEPT !.time_elapsed_ms = Some(elapsed)]

\* Sessions of two users and two exercise types: left open, completed with a
\* score, completed with the score 0.0, and completed a millisecond apart.
StatsPlans ==
    {RowPlan(1, None, ConfigAccuracy, <<>>),
     RowPlan(1, None, ConfigAccuracy, <<Completes(10, 9)>>),
     RowPlan(1, None, ConfigAccuracy, <<Completes(10, 0)>>),
     RowPlan(1, None, ConfigAccuracy, <<UpdateComplete>>),
     RowPlan(1, None, ConfigAccuracy, <<Finishes(10, 8, 30001)>>),
     RowPlan(1, Some(7), ConfigMedium, <<UpdateCompleteAll>>),
     RowPlan(1, None, ConfigNoLimit, <<>>),
     RowPlan(2, None, ConfigAccuracy, <<Completes(20, 19)>>)}

StatsInit ==
    /\ \E n \in 0..MaxRows : \E plans \in [1..n -> StatsPlans] :
          sessions = build_table(<<>>, plans)
    /\ request = Request("none", 0, 0, EmptyUpdate)
    /\ response = Response(0, <<>>)
    /\ nreq = MaxRequests - 1
    /\ calls = <<>>

UserStats == \E u \in Users : GetUserStats(u)

StatsNext == UserStats

StatsSpec == StatsInit /\ [][StatsNext]_vars

\* The sessions of the asking user that have the given exercise type.
Owned(exercise_type) ==
    {i \in Rows : /\ sessions[i].user_id = request.user_id
                  /\ sessions[i].exercise_type = exercise_type}

CompletedOf(exercise_type) ==
    {i \in Owned(exercise_type) : sessions[i].is_completed}

\* The positions of the answer that report the given exercise type.
RecordsOf(exercise_type) ==
    {k \in 1..Len(response.body) :
        response.body[k].exercise_type = exercise_type}

\* C12: UserStats returns one record for each exercise type the user has a
\* session of and none for the other types; the record counts the user's
\* sessions of the type and the completed ones, and its three averages are
\* None when none is completed.
C12_StatsPerPlayedType ==
    request.op = "stats" =>
        /\ response.status = 200
        /\ \A t \in Range(ExerciseTypes) :
             /\ Cardinality(RecordsOf(t)) =
                    (IF Owned(t) = {} THEN 0 ELSE 1)
             /\ \A k \in RecordsOf(t) :
                  LET stats == response.body[k]
                  IN  /\ stats.total_attempts = Cardinality(Owned(t))
                      /\ stats.completed_attempts =
                             Cardinality(CompletedOf(t))
                      /\ stats.completed_attempts = 0 =>
                             /\ stats.avg_score = None
                             /\ stats.avg_accuracy = None
                             /\ stats.avg_time_ms = None

\* The same statement for the calls that return.
C12_StatsWhenReturned ==
    (request.op = "stats" /\ response.status = 200) =>
        C12_StatsPerPlayedType

\* The completed sessions of the type that have a score, 0.0 included.
ScoredOf(exercise_type) ==
    {i \in CompletedOf(exercise_type) : sessions[i].final_score # None}

\* The RecentCount most recently created completed sessions of the type.
RecentOf(exercise_type) ==
    {i \in CompletedOf(exercise_type) :
        Cardinality({j \in CompletedOf(exercise_type) : j > i}) < RecentCount}

\* The rows of a set, the newest first.
RECURSIVE NewestFirst(_)
NewestFirst(S) ==
    IF S = {} THEN <<>>
    ELSE LET newest == CHOOSE i \in S : \A j \in S : j <= i
         IN  <<newest>> \o NewestFirst(S \ {newest})

\* C13: best_score is None exactly when no completed session of the type
\* has a score, and otherwise the highest of these scores (0.0 when all of
\* them are 0.0); recent_scores lists the score of each of the RecentCount
\* newest completed sessions that has one, so it is as long as
\* recent_accuracies when all of them have one.
C13_BestAndRecentScores ==
    (request.op = "stats" /\ response.status = 200) =>
        \A t \in Range(ExerciseTypes) : \A k \in RecordsOf(t) :
            LET stats == response.body[k]
                recent == NewestFirst(RecentOf(t) \cap ScoredOf(t))
            IN  /\ stats.best_score = None <=> ScoredOf(t) = {}
                /\ \A i \in ScoredOf(t) :
                       /\ stats.best_score # None
                       /\ RLe(Val(sessions[i].final_score),
                              Val(stats.best_score))
                /\ stats.best_score # None =>
                       \E i \in ScoredOf(t) :
                           sessions[i].final_score = stats.best_score
                /\ stats.recent_scores =
                       [j \in 1..Len(recent) |->
                           Val(sessions[recent[j]].final_score)]
                /\ RecentOf(t) \subseteq ScoredOf(t) =>
                       Len(stats.recent_scores) = Len(stats.recent_accuracies)

\* The score of a session with moves, given the time score that enters it.
ScoreWith(s, time) ==
    LET accuracy == Rat(100 * s.correct_moves, s.total_moves)
        base_score ==
            RAdd(RMul(accuracy, DictGet(s.config, "accuracy_weight", Rat(1, 2))),
                 RMul(time, DictGet(s.config, "time_weight", Rat(1, 2))))
    IN  RMin(F(100),
             RMul(RAdd(base_score, C9_Bonus(s)), C9_Multiplier(s.difficulty)))

\* (1 - min(1, time_elapsed_ms / limit)) * 100
TimeScoreFor(elapsed, limit) ==
    RMul(RSub(F(1), RMin(F(1), Rat(elapsed, limit))), F(100))

HasLimit(s) == "time_limit_ms" \in DOMAIN s.config

\* The limit with 60000 in place of an absent key or a value that is not
\* positive, and the time score over it.
C14_LimitOrDefault(s) ==
    IF HasLimit(s) /\ s.config.time_limit_ms # None
                   /\ Val(s.config.time_limit_ms) > 0
    THEN Val(s.config.time_limit_ms) ELSE 60000

C14_TimeScoreOverDefault(s) ==
    IF s.time_elapsed_ms > 0
    THEN TimeScoreFor(s.time_elapsed_ms, C14_LimitOrDefault(s))
    ELSE F(0)

\* C14 as stated: the time score that enters final_score is computed over
\* config.time_limit_ms, with 60000 in its place when the key is absent or
\* its value is 0 or negative, and is 0.0 when no time has elapsed.
C14_NonPositiveLimitDefaults ==
    (CompletedNow /\ sessions[request.session_id].total_moves > 0) =>
        LET s == sessions[request.session_id]
        IN  s.final_score = Some(ScoreWith(s, C14_TimeScoreOverDefault(s)))

\* The limit with 60000 in place of an absent key only, and the time score
\* over it: 0.0 unless both the elapsed time and the limit are positive.
C14_TimeScoreOverLimit(s) ==
    LET limit == IF HasLimit(s) THEN Val(s.config.time_limit_ms) ELSE 60000
    IN  IF s.time_elapsed_ms > 0 /\ limit > 0
        THEN TimeScoreFor(s.time_elapsed_ms, limit)
        ELSE F(0)

\* C14, amended: the time score that enters final_score is computed over
\* config.time_limit_ms, with 60000 in its place only when the key is
\* absent; it is (1 - min(1, elapsed / limit)) * 100 when the elapsed time
\* and the limit are both positive, and 0.0 when the elapsed time is 0 or
\* the limit is 0 or negative.
C14_TimeScore ==
    (CompletedNow /\ sessions[request.session_id].total_moves > 0) =>
        LET s == sessions[request.session_id]
        IN  s.final_score = Some(ScoreWith(s, C14_TimeScoreOverLimit(s)))

\* A session with the limit 0 completed after 30000 ms: 80 * 0.6 * 1.2 =
\* 57.6, with no share of the time score.
C14_Witness ==
    /\ CompletedNow
    /\ LET s == sessions[request.session_id]
       IN  /\ s.config = ScoreConfig(MEMORY_CARDS, "medium", <<Some(0)>>,
                                     <<Rat(4, 10)>>, <<Rat(6, 10)>>)
           /\ s.total_moves = 10
           /\ s.correct_moves = 8
           /\ s.time_elapsed_ms = 30000
           /\ s.final_score = Some(Rat(576, 10))

\* C15: the time_score of a stored breakdown is 0.0 when the session has no
\* moves, no elapsed time or a time limit of 0, and otherwise the time score
\* calculate_score used for final_score, times time_weight.
C15_BreakdownTimeComponent ==
    CompletedNow =>
        LET s == sessions[request.session_id]
            reported == Val(s.score_breakdown).time_score
            time_weight == DictGet(s.config, "time_weight", Rat(1, 2))
        IN  IF \/ s.total_moves = 0
               \/ s.time_elapsed_ms = 0
               \/ (HasLimit(s) /\ s.config.time_limit_ms = Some(0))
            THEN reported = F(0)
            ELSE reported = RMul(time_score(s).value, time_weight)

\* C16: whatever Create and Update calls came before, a completed session's
\* final_score is calculate_score of the telemetry the row holds now, and
\* its breakdown reports the moves, time and sequence the row holds now.
C16_ScoreOfStoredTelemetry ==
    \A i \in Rows :
        sessions[i].is_completed =>
            LET s == sessions[i]
                breakdown == Val(s.score_breakdown)
            IN  /\ calculate_score(s).raised = ""
                /\ s.final_score = Some(calculate_score(s).value)
                /\ breakdown.total_moves = s.total_moves
                /\ breakdown.correct_moves = s.correct_moves
                /\ breakdown.incorrect_moves = s.incorrect_moves
                /\ breakdown.time_elapsed_ms = s.time_elapsed_ms
                /\ breakdown.max_sequence = s.max_sequence_reached

\* ------------------------------------------- two Updates of one session
\* Each request works in a database session of its own (get_db): its query
\* loads the row into that session, the assignments change the loaded
\* object and nothing else, and db.commit() flushes one UPDATE and commits
\* it.  `calls` holds the requests in flight: where each stands, the row it
\* loaded, the object it has changed, and its place in the order of commits.
CallIds == {1, 2}

Call(session_id, user_id, data) ==
    [pc |-> "read", session_id |-> session_id, user_id |-> user_id,
     data |-> data, loaded |-> None, session |-> None, raised |-> "",
     order |-> 0]

\* The UPDATE of a flush sets the columns whose value is no longer the one
\* that was loaded, and leaves every other column as the table holds it.
flush(stored, loaded, session) ==
    [column \in DOMAIN stored |->
        IF session[column] # loaded[column]
        THEN session[column] ELSE stored[column]]

\* Lines 52-58: the query, and ValueError when it finds no row.
ReadSession(c) ==
    LET call == calls[c]
        found == find_session(sessions, call.session_id, call.user_id)
    IN  /\ call.pc = "read"
        /\ calls' = [calls EXCEPT ![c] =
                       IF IsNone(found)
                       THEN [call EXCEPT !.pc = "failed",
                                         !.raised = "ValueError"]
                       ELSE [call EXCEPT !.pc = "loaded", !.loaded = found,
                                         !.session = found]]
        /\ request' = IF IsNone(found)
                      THEN Request("update", call.session_id, call.user_id,
                                   call.data)
                      ELSE request
        /\ response' = IF IsNone(found) THEN Response(404, <<>>) ELSE response
        /\ UNCHANGED <<sessions, nreq>>

\* Lines 60-79: the assignments and the scoring, on the loaded object.  An
\* exception ends the request before its commit.
ScoreSession(c) ==
    LET call == calls[c]
        done == complete_session(apply_fields(Val(call.session), call.data),
                                 call.data)
    IN  /\ call.pc = "loaded"
        /\ calls' = [calls EXCEPT ![c] =
                       IF done.raised # ""
                       THEN [call EXCEPT !.pc = "failed",
                                         !.raised = done.raised]
                       ELSE [call EXCEPT !.pc = "scored",
                                         !.session = Some(done.value)]]
        /\ request' = IF done.raised # ""
                      THEN Request("update", call.session_id, call.user_id,
                                   call.data)
                      ELSE request
        /\ response' = IF done.raised # "" THEN Response(500, <<>>)
                       ELSE response
        /\ UNCHANGED <<sessions, nreq>>

\* Lines 81-83: db.commit() and db.refresh(session); the answer is the row
\* as the table holds it after the commit.
CommitSession(c) ==
    LET call == calls[c]
        id == call.session_id
    IN  /\ call.pc = "scored"
        /\ sessions' = [sessions EXCEPT ![id] =
                          flush(@, Val(call.loaded), Val(call.session))]
        /\ calls' = [calls EXCEPT ![c] =
                       [call EXCEPT
                          !.pc = "done",
                          !.order = 1 + Cardinality({d \in CallIds :
                                           calls[d].pc = "done"})]]
        /\ request' = Request("update", id, call.user_id, call.data)
        /\ response' = Response(200, <<sessions'[id]>>)
        /\ UNCHANGED nreq

\* The session the two requests meet on: new, with telemetry, completed
\* before, and created without a time limit.
RacePlans ==
    {RowPlan(1, None, ConfigMedium, <<>>),
     RowPlan(1, None, ConfigMedium, <<UpdateTelemetry>>),
     RowPlan(1, None, ConfigMedium, <<Completes(10, 9)>>),
     RowPlan(1, None, ConfigZeroLimit, <<>>),
     RowPlan(1, None, ConfigNoLimit, <<>>)}

\* Every payload carries completed_at.
RacePayloads == {UpdateComplete, UpdateCompleteAll, Completes(10, 9)}

RaceInit ==
    /\ \E plan \in RacePlans : sessions = build_table(<<>>, <<plan>>)
    /\ calls \in [CallIds -> {Call(1, 1, d) : d \in RacePayloads}]
    /\ request = Request("none", 0, 0, EmptyUpdate)
    /\ response = Response(0, <<>>)
    /\ nreq = 0

Read == \E c \in CallIds : ReadSession(c)

Score == \E c \in CallIds : ScoreSession(c)

Commit == \E c \in CallIds : CommitSession(c)

RaceNext == Read \/ Score \/ Commit

RaceSpec == RaceInit /\ [][RaceNext]_vars

\* Both requests have committed.
BothCommitted == calls # <<>> /\ \A c \in CallIds : calls[c].pc = "done"

\* The request that committed last.
LastCommitted == CHOOSE c \in CallIds : calls[c].order = Cardinality(CallIds)

\* The row holds the completion the given request computed.
HoldsCompletionOf(c) ==
    LET s == sessions[calls[c].session_id]
        computed == Val(calls[c].session)
    IN  /\ s.is_completed
        /\ s.completed_at = computed.completed_at
        /\ s.final_score = computed.final_score
        /\ s.score_breakdown = computed.score_breakdown

\* C17: when two Updates of one session that both carry completed_at
\* interleave, neither raises an error, and once both have committed the
\* row is completed and holds the completed_at, final_score and
\* score_breakdown computed by the request that committed last.
C17_LastWriteWins ==
    calls # <<>> =>
        /\ \A c \in CallIds : calls[c].raised = ""
        /\ BothCommitted => HoldsCompletionOf(LastCommitted)

\* The same outcome for the races on a session that neither request found
\* completed.
LastWriteWinsOnOpenSession ==
    (/\ BothCommitted
     /\ \A c \in CallIds : ~Val(calls[c].loaded).is_completed) =>
        HoldsCompletionOf(LastCommitted)

\* The error of the first conjunct apart: the races both requests commit.
LastWriteWinsWhenCommitted == BothCommitted => HoldsCompletionOf(LastCommitted)

====
